---- MODULE Spec2Model ----
(***************************************************************************)
(* Event registration and QR-ticket check-in: the in-memory storage        *)
(* (MemStorage), the database-backed storage (SqliteStorage.verifyAndScan) *)
(* and the event forms.  Timestamps (createdAt, updatedAt, scannedAt) and  *)
(* the SCAN<time> ids of history records carry no control flow and are     *)
(* left out of the records.  The contact fields of a registration (name,   *)
(* email, phone, organization, customFieldData, teamMembers) are all       *)
(* copied and assigned alike and are represented by the field name.        *)
(***************************************************************************)
EXTENDS Integers, Sequences, FiniteSets, TLC

\* ---------------------------------------------------------------- bounds
MaxGroup == 2        \* largest groupSize a caller passes
MaxHistory == 2      \* valid scans recorded in scanHistory
MaxForms == 3        \* event forms created
MaxSqlCalls == 3     \* SqliteStorage.verifyAndScan calls started
MaxMail == 2         \* requests made to an email provider
\* verifyAndScan calls counted per issued QR code: one more than any maxScans
MaxCalls == MaxGroup + 1

\* --------------------------------------------------------- input domains
FirstTicket == 1000  \* Math.floor(Math.random() * 9000) + 1000
TicketIds == {FirstTicket, FirstTicket + 1}
Names == {"alice"}
QrNull == "null"
QrCodes == {"qr1"}
NoForm == 0          \* formId: data.formId ?? null
Titles == {"t1", "t2"}
FormIds == 1..MaxForms
Procs == {"s1", "s2"}
UpdateFields == {"name", "groupSize", "formId"}
StoreTickets == {FirstTicket}
StoreFormIds == {NoForm, 1}
StoreForms == {1, 2}
EnvValues == {"", "secret"}
FetchOutcomes == {"throws", "ok", "not-ok"}

VARIABLES
  registrations,  \* MemStorage.registrations: ticket id -> Registration
  scanHistory,    \* MemStorage.scanHistory: ticket ids of the valid scans
  ret,            \* what the last MemStorage registration call returned
  track           \* per ticket id, the calls made on the registration:
                  \*   qr: "issued" after a generateQRCode that returned true,
                  \*       "revoked" after a revokeQRCode that returned true,
                  \*       "none" for a new or deleted registration;
                  \*   calls, runValid: the verifyAndScan calls, and those
                  \*       that returned valid=true, since the QR code was
                  \*       issued with scans = 0;
                  \*   valid: the verifyAndScan calls that returned
                  \*       valid=true since the creation or the last revoke

VARIABLES
  eventForms,     \* MemStorage.eventForms: form id -> EventForm
  nextFormId,     \* MemStorage.nextFormId
  formRet         \* what the last MemStorage event-form call returned

VARIABLES
  db,             \* ticketDb: the stored registrations, ticket id -> Registration
  dbScanHistory,  \* ticketDb: ticket ids of the scan-history records
  pc,             \* per request: where its SqliteStorage.verifyAndScan stands
  local,          \* per request: ticketId and the registration it read
  sqlRet,         \* per request: what its last verifyAndScan returned
  sqlCalls,       \* SqliteStorage.verifyAndScan calls started so far
  sqlValid        \* per ticket id: verifyAndScan calls that returned valid=true

VARIABLES
  BREVO_API_KEY,  \* Brevo module: the API key read from the environment
  EMAIL_USER,     \* nodemailer module: the account read from the environment
  EMAIL_PASS,     \* nodemailer module: the password read from the environment
  brevoPc,        \* where the Brevo sendQRCodeEmail call stands
  brevoResponse,  \* what fetch gave the Brevo call: "none", "throws", "ok", "not-ok"
  brevoRet,       \* how the promise of the last Brevo call settled
  brevoRequests,  \* HTTP requests made to the Brevo API
  mailPc,         \* where the nodemailer sendQRCodeEmail call stands
  mailRet,        \* how the promise of the last nodemailer call settled
  mailRequests    \* messages handed to the nodemailer transporter

memVars == <<registrations, scanHistory, ret, track>>
formVars == <<eventForms, nextFormId, formRet>>
sqlVars == <<db, dbScanHistory, pc, local, sqlRet, sqlCalls, sqlValid>>
mailVars == <<BREVO_API_KEY, EMAIL_USER, EMAIL_PASS, brevoPc, brevoResponse,
              brevoRet, brevoRequests, mailPc, mailRet, mailRequests>>
vars == <<memVars, formVars, sqlVars, mailVars>>

\* ------------------------------------------------------------ Map helpers
MapSet(m, k, v) == [x \in DOMAIN m \cup {k} |-> IF x = k THEN v ELSE m[x]]
MapDelete(m, k) == [x \in DOMAIN m \ {k} |-> m[x]]
MapHas(m, k) == k \in DOMAIN m

\* A return value; reg is the optional registration: {} or {registration}.
Result(op, id, ok, regs) == [op |-> op, id |-> id, ok |-> ok, reg |-> regs]

NoCalls == [qr |-> "none", calls |-> 0, runValid |-> 0, valid |-> 0]

\* ------------------------------------------------------------ MemStorage
\* groupSize 0 stands for an absent or zero groupSize (data.groupSize || 1).
InsertRegistration(formIds) ==
  [name : Names, groupSize : 0..MaxGroup, formId : formIds]

NewRegistration(id, data) ==
  LET groupSize == IF data.groupSize = 0 THEN 1 ELSE data.groupSize
      maxScans == groupSize * 1
  IN [id |-> id, name |-> data.name, groupSize |-> groupSize, scans |-> 0,
      maxScans |-> maxScans, hasQR |-> FALSE, qrCodeData |-> QrNull,
      status |-> "pending", formId |-> data.formId]

createRegistration(id, data) ==
  LET registration == NewRegistration(id, data)
  IN /\ registrations' = MapSet(registrations, id, registration)
     /\ ret' = Result("createRegistration", id, TRUE, {registration})
     /\ track' = [track EXCEPT ![id] = NoCalls]
     /\ UNCHANGED scanHistory

getRegistration(id) ==
  IF MapHas(registrations, id) THEN {registrations[id]} ELSE {}

getRegistrationsCount == Cardinality(DOMAIN registrations)

getRegistrationsByFormId(formId) ==
  {id \in DOMAIN registrations : registrations[id].formId = formId}

\* A count that joins the registrations with the stored forms.
getRegistrationsByFormIdCountJoined(formId) ==
  Cardinality({id \in getRegistrationsByFormId(formId) : formId \in DOMAIN eventForms})

getRegistrationsByFormIdCount(formId) ==
  Cardinality(getRegistrationsByFormId(formId))

getFormStats(formId) ==
  LET regs == getRegistrationsByFormId(formId)
  IN [totalRegistrations |-> Cardinality(regs),
      qrCodesGenerated |-> Cardinality({r \in regs : registrations[r].hasQR}),
      totalEntries |->
        Cardinality({r \in regs : registrations[r].status = "checked-in"}),
      activeRegistrations |->
        Cardinality({r \in regs : registrations[r].status \in {"active", "pending"}})]

getStats ==
  LET allRegs == DOMAIN registrations
  IN [totalRegistrations |-> Cardinality(allRegs),
      qrCodesGenerated |-> Cardinality({r \in allRegs : registrations[r].hasQR}),
      totalEntries |->
        Cardinality({r \in allRegs :
                       registrations[r].status \in {"checked-in", "exhausted"}}),
      activeRegistrations |->
        Cardinality({r \in allRegs : registrations[r].status \in {"active", "pending"}})]

\* Issuing a QR code that also starts the scan count again.
QRIssuedResetsScans(reg, qrCodeData) ==
  [reg EXCEPT !.hasQR = TRUE, !.qrCodeData = qrCodeData, !.status = "active",
              !.scans = 0]

\* A QR code issued without the status change.
QRIssuedKeepsStatus(reg, qrCodeData) ==
  [reg EXCEPT !.hasQR = TRUE, !.qrCodeData = qrCodeData]

QRIssued(reg, qrCodeData) ==
  [reg EXCEPT !.hasQR = TRUE, !.qrCodeData = qrCodeData, !.status = "active"]

generateQRCode(id, qrCodeData) ==
  IF ~MapHas(registrations, id)
  THEN /\ ret' = Result("generateQRCode", id, FALSE, {})
       /\ UNCHANGED <<registrations, scanHistory, track>>
  ELSE LET reg == QRIssued(registrations[id], qrCodeData)
       IN /\ registrations' = MapSet(registrations, id, reg)
          /\ ret' = Result("generateQRCode", id, TRUE, {})
          /\ track' = [track EXCEPT ![id] =
                          IF reg.scans = 0
                          THEN [@ EXCEPT !.qr = "issued", !.calls = 0, !.runValid = 0]
                          ELSE [@ EXCEPT !.qr = "issued"]]
          /\ UNCHANGED scanHistory

\* verifyAndScan without its scans >= maxScans check.
VerifyBranchNoLimit(registration) ==
  IF ~registration.hasQR THEN "no-qr"
  ELSE IF registration.status = "exhausted" THEN "exhausted"
  ELSE "scan"

\* verifyAndScan without its hasQR check.
VerifyBranchNoQRCheck(registration) ==
  IF registration.status = "exhausted" THEN "exhausted"
  ELSE IF registration.scans >= registration.maxScans THEN "max-reached"
  ELSE "scan"

\* The branch verifyAndScan takes for a stored registration.
VerifyBranch(registration) ==
  IF ~registration.hasQR THEN "no-qr"
  ELSE IF registration.status = "exhausted" THEN "exhausted"
  ELSE IF registration.scans >= registration.maxScans THEN "max-reached"
  ELSE "scan"

\* A scan that reclassifies the status but forgets scans += 1.
ScannedNoIncrement(registration) ==
  [registration EXCEPT
     !.status = IF registration.scans >= registration.maxScans THEN "exhausted"
                ELSE "checked-in"]

\* A scan that always reclassifies to checked-in.
ScannedAlwaysCheckedIn(registration) ==
  [registration EXCEPT !.scans = registration.scans + 1, !.status = "checked-in"]

Scanned(registration) ==
  LET scans == registration.scans + 1
  IN [registration EXCEPT
        !.scans = scans,
        !.status = IF scans >= registration.maxScans THEN "exhausted"
                   ELSE "checked-in"]

verifyAndScan(ticketId) ==
  IF ~MapHas(registrations, ticketId)
  THEN /\ ret' = Result("verifyAndScan", ticketId, FALSE, {})
       /\ UNCHANGED <<registrations, scanHistory, track>>
  ELSE
    LET registration == registrations[ticketId]
        branch == VerifyBranch(registration)
        hit == IF branch = "scan" THEN 1 ELSE 0
    IN /\ registration.hasQR => track[ticketId].calls < MaxCalls
       /\ track' = [track EXCEPT ![ticketId] =
                       IF registration.hasQR
                       THEN [@ EXCEPT !.calls = @ + 1, !.runValid = @ + hit,
                                      !.valid = @ + hit]
                       ELSE [@ EXCEPT !.valid = @ + hit]]
       /\ CASE branch = "no-qr" ->
                 /\ ret' = Result("verifyAndScan", ticketId, FALSE, {registration})
                 /\ UNCHANGED <<registrations, scanHistory>>
            [] branch = "exhausted" ->
                 /\ ret' = Result("verifyAndScan", ticketId, FALSE, {registration})
                 /\ UNCHANGED <<registrations, scanHistory>>
            [] branch = "max-reached" ->
                 LET reg == [registration EXCEPT !.status = "exhausted"]
                 IN /\ registrations' = MapSet(registrations, ticketId, reg)
                    /\ ret' = Result("verifyAndScan", ticketId, FALSE, {reg})
                    /\ UNCHANGED scanHistory
            [] branch = "scan" ->
                 LET reg == Scanned(registration)
                 IN /\ Len(scanHistory) < MaxHistory
                    /\ registrations' = MapSet(registrations, ticketId, reg)
                    /\ scanHistory' = Append(scanHistory, ticketId)
                    /\ ret' = Result("verifyAndScan", ticketId, TRUE, {reg})

\* A delete that empties the whole map.
deleteRegistrationClears(id) ==
  /\ registrations' = << >>
  /\ ret' = Result("deleteRegistration", id, MapHas(registrations, id), {})
  /\ track' = [track EXCEPT ![id] = NoCalls]
  /\ UNCHANGED scanHistory

deleteRegistration(id) ==
  /\ registrations' = MapDelete(registrations, id)
  /\ ret' = Result("deleteRegistration", id, MapHas(registrations, id), {})
  /\ track' = [track EXCEPT ![id] = NoCalls]
  /\ UNCHANGED scanHistory

\* A revoke that leaves hasQR set.
RevokedKeepsQR(reg) ==
  [reg EXCEPT !.qrCodeData = QrNull, !.status = "pending", !.scans = 0]

\* A revoke that does not reset scans.
RevokedKeepsScans(reg) ==
  [reg EXCEPT !.hasQR = FALSE, !.qrCodeData = QrNull, !.status = "pending"]

Revoked(reg) ==
  [reg EXCEPT !.hasQR = FALSE, !.qrCodeData = QrNull, !.status = "pending",
              !.scans = 0]

revokeQRCode(id) ==
  IF ~MapHas(registrations, id)
  THEN /\ ret' = Result("revokeQRCode", id, FALSE, {})
       /\ UNCHANGED <<registrations, scanHistory, track>>
  ELSE /\ registrations' = MapSet(registrations, id, Revoked(registrations[id]))
       /\ ret' = Result("revokeQRCode", id, TRUE, {})
       /\ track' = [track EXCEPT ![id] = [NoCalls EXCEPT !.qr = "revoked"]]
       /\ UNCHANGED scanHistory

\* Partial<InsertRegistration>: the fields named in has are present.
PartialRegistration(formIds) ==
  {d \in [has : SUBSET UpdateFields, name : Names, groupSize : 1..MaxGroup,
          formId : formIds] :
     /\ "name" \notin d.has => d.name = "alice"
     /\ "groupSize" \notin d.has => d.groupSize = 1
     /\ "formId" \notin d.has => d.formId = NoForm}

\* Object.assign(reg, data)
Assign(reg, data) ==
  [reg EXCEPT
     !.name = IF "name" \in data.has THEN data.name ELSE @,
     !.groupSize = IF "groupSize" \in data.has THEN data.groupSize ELSE @,
     !.formId = IF "formId" \in data.has THEN data.formId ELSE @]

updateRegistration(id, data) ==
  IF ~MapHas(registrations, id)
  THEN /\ ret' = Result("updateRegistration", id, FALSE, {})
       /\ UNCHANGED <<registrations, scanHistory, track>>
  ELSE /\ registrations' = MapSet(registrations, id, Assign(registrations[id], data))
       /\ ret' = Result("updateRegistration", id, TRUE, {})
       /\ UNCHANGED <<scanHistory, track>>

\* ------------------------------------------------- MemStorage event forms
FormResult(op, id, ok, forms) == [op |-> op, id |-> id, ok |-> ok, form |-> forms]

\* data: any; a caller may pass isPublished, which createEventForm ignores.
EventFormInput == [title : Titles, isPublished : BOOLEAN]

\* The fields the form builder submits; title stands for all of them.
FormBuilderData == [title : Titles]

\* A creation that numbers the new form by the count of stored forms.
createEventFormCountsForms(data) ==
  LET id == Cardinality(DOMAIN eventForms) + 1
      form == [id |-> id, title |-> data.title, isPublished |-> FALSE]
  IN /\ nextFormId <= MaxForms
     /\ nextFormId' = nextFormId + 1
     /\ eventForms' = MapSet(eventForms, id, form)
     /\ formRet' = FormResult("createEventForm", id, TRUE, {form})

createEventForm(data) ==
  LET id == nextFormId
      form == [id |-> id, title |-> data.title, isPublished |-> FALSE]
  IN /\ nextFormId <= MaxForms
     /\ nextFormId' = nextFormId + 1
     /\ eventForms' = MapSet(eventForms, id, form)
     /\ formRet' = FormResult("createEventForm", id, TRUE, {form})

getEventForm(id) == IF MapHas(eventForms, id) THEN {eventForms[id]} ELSE {}

\* forms.find((f) => f.isPublished) || null, in insertion (= id) order
getPublishedForm ==
  LET published == {id \in DOMAIN eventForms : eventForms[id].isPublished}
  IN IF published = {} THEN {}
     ELSE {eventForms[CHOOSE id \in published : \A o \in published : id <= o]}

\* An update that also writes isPublished = false.
AssignFormUnpublishes(form, data) ==
  [form EXCEPT !.title = data.title, !.isPublished = FALSE]

\* Object.assign(form, {...data, updatedAt})
AssignForm(form, data) == [form EXCEPT !.title = data.title]

updateEventForm(id, data) ==
  IF ~MapHas(eventForms, id)
  THEN /\ formRet' = FormResult("updateEventForm", id, FALSE, {})
       /\ UNCHANGED <<eventForms, nextFormId>>
  ELSE /\ eventForms' = MapSet(eventForms, id, AssignForm(eventForms[id], data))
       /\ formRet' = FormResult("updateEventForm", id, TRUE, {})
       /\ UNCHANGED nextFormId

\* A publish that does not unpublish the other forms.
PublishedFormsKeepsOthers(forms, id) ==
  [f \in DOMAIN forms |->
     IF f = id THEN [forms[f] EXCEPT !.isPublished = TRUE] ELSE forms[f]]

\* forEach(f => f.isPublished = false); form.isPublished = true
PublishedForms(forms, id) ==
  [f \in DOMAIN forms |-> [forms[f] EXCEPT !.isPublished = (f = id)]]

\* A publish that unpublishes every form before it looks the id up.
publishEventFormUnpublishesFirst(id) ==
  IF ~MapHas(eventForms, id)
  THEN /\ eventForms' = [f \in DOMAIN eventForms |->
                           [eventForms[f] EXCEPT !.isPublished = FALSE]]
       /\ formRet' = FormResult("publishEventForm", id, FALSE, {})
       /\ UNCHANGED nextFormId
  ELSE /\ eventForms' = PublishedForms(eventForms, id)
       /\ formRet' = FormResult("publishEventForm", id, TRUE, {})
       /\ UNCHANGED nextFormId

publishEventForm(id) ==
  IF ~MapHas(eventForms, id)
  THEN /\ formRet' = FormResult("publishEventForm", id, FALSE, {})
       /\ UNCHANGED <<eventForms, nextFormId>>
  ELSE /\ eventForms' = PublishedForms(eventForms, id)
       /\ formRet' = FormResult("publishEventForm", id, TRUE, {})
       /\ UNCHANGED nextFormId

unpublishEventForm(id) ==
  IF ~MapHas(eventForms, id)
  THEN /\ formRet' = FormResult("unpublishEventForm", id, FALSE, {})
       /\ UNCHANGED <<eventForms, nextFormId>>
  ELSE /\ eventForms' = MapSet(eventForms, id,
                               [eventForms[id] EXCEPT !.isPublished = FALSE])
       /\ formRet' = FormResult("unpublishEventForm", id, TRUE, {})
       /\ UNCHANGED nextFormId

deleteEventForm(id) ==
  /\ eventForms' = MapDelete(eventForms, id)
  /\ formRet' = FormResult("deleteEventForm", id, MapHas(eventForms, id), {})
  /\ UNCHANGED nextFormId

\* ------------------------------------------------------------- ticketDb
\* The database behind SqliteStorage: a collection of registrations keyed by
\* ticket id and a collection of scan-history records.
dbCreateRegistration(id, data) ==
  /\ ~MapHas(db, id)
  /\ db' = MapSet(db, id, NewRegistration(id, data))
  /\ UNCHANGED <<dbScanHistory, pc, local, sqlRet, sqlCalls, sqlValid>>

dbGetRegistration(id) == IF MapHas(db, id) THEN {db[id]} ELSE {}

\* updateRegistration(id, {scans, status}): sets the given fields of the
\* stored document, whatever it holds now.
dbUpdateRegistration(d, id, scans, status) ==
  IF MapHas(d, id)
  THEN MapSet(d, id, [d[id] EXCEPT !.scans = scans, !.status = status])
  ELSE d

\* --------------------------------------------- SqliteStorage.verifyAndScan
\* One request runs from await to await; other requests run in between.
NewScans(registration) == registration.scans + 1

\* A status that is reclassified as MemStorage does it.
NewStatusReclassifies(registration) ==
  IF NewScans(registration) >= registration.maxScans THEN "exhausted" ELSE "checked-in"

NewStatus(registration) ==
  IF registration.status = "checked-in" THEN "checked-in" ELSE "checked-in"

\* await getRegistration, then the not-found and the scan-limit checks
sqlGetRegistration(p, ticketId) ==
  LET found == dbGetRegistration(ticketId)
      rejected == \/ found = {}
                  \/ \E registration \in found :
                       registration.scans >= registration.maxScans
  IN /\ pc[p] = "idle"
     /\ sqlCalls < MaxSqlCalls
     /\ sqlCalls' = sqlCalls + 1
     /\ local' = [local EXCEPT ![p] = [ticketId |-> ticketId, registration |-> found]]
     /\ IF rejected
        THEN /\ sqlRet' = [sqlRet EXCEPT
                             ![p] = Result("verifyAndScan", ticketId, FALSE, {})]
             /\ UNCHANGED pc
        ELSE /\ pc' = [pc EXCEPT ![p] = "history"]
             /\ UNCHANGED sqlRet
     /\ UNCHANGED <<db, dbScanHistory, sqlValid>>

\* await createScanHistory
sqlCreateScanHistory(p) ==
  /\ pc[p] = "history"
  /\ dbScanHistory' = Append(dbScanHistory, local[p].ticketId)
  /\ pc' = [pc EXCEPT ![p] = "update"]
  /\ UNCHANGED <<db, local, sqlRet, sqlCalls, sqlValid>>

\* An update guarded by a re-check: it writes only if the stored scans is
\* still the one the request read, and rejects the scan otherwise.
sqlUpdateRegistrationGuarded(p) ==
  /\ pc[p] = "update"
  /\ \E registration \in local[p].registration :
       LET ticketId == local[p].ticketId
           newScans == NewScans(registration)
           newStatus == NewStatus(registration)
           fresh == MapHas(db, ticketId) /\ db[ticketId].scans = registration.scans
       IN /\ db' = IF fresh
                   THEN dbUpdateRegistration(db, ticketId, newScans, newStatus)
                   ELSE db
          /\ sqlRet' = [sqlRet EXCEPT ![p] =
               Result("verifyAndScan", ticketId, fresh,
                      IF fresh
                      THEN {[registration EXCEPT !.scans = newScans,
                                                 !.status = newStatus]}
                      ELSE {})]
          /\ sqlValid' = IF fresh
                         THEN [sqlValid EXCEPT ![ticketId] = @ + 1]
                         ELSE sqlValid
  /\ pc' = [pc EXCEPT ![p] = "idle"]
  /\ UNCHANGED <<dbScanHistory, local, sqlCalls>>

\* await updateRegistration, then return valid=true
sqlUpdateRegistration(p) ==
  /\ pc[p] = "update"
  /\ \E registration \in local[p].registration :
       LET ticketId == local[p].ticketId
           newScans == NewScans(registration)
           newStatus == NewStatus(registration)
       IN /\ db' = dbUpdateRegistration(db, ticketId, newScans, newStatus)
          /\ sqlRet' = [sqlRet EXCEPT ![p] =
               Result("verifyAndScan", ticketId, TRUE,
                      {[registration EXCEPT !.scans = newScans,
                                            !.status = newStatus]})]
          /\ sqlValid' = [sqlValid EXCEPT ![ticketId] = @ + 1]
  /\ pc' = [pc EXCEPT ![p] = "idle"]
  /\ UNCHANGED <<dbScanHistory, local, sqlCalls>>

\* A failure that undoes the scan-history record the request wrote.
sqlUpdateRegistrationFailsRollsBack(p) ==
  /\ pc[p] = "update"
  /\ sqlRet' = [sqlRet EXCEPT ![p] = Result("rejected", local[p].ticketId, FALSE, {})]
  /\ pc' = [pc EXCEPT ![p] = "idle"]
  /\ dbScanHistory' = SubSeq(dbScanHistory, 1, Len(dbScanHistory) - 1)
  /\ UNCHANGED <<db, local, sqlCalls, sqlValid>>

\* await updateRegistration throws: verifyAndScan has no try block, so the
\* promise rejects and what was written before stays written.
sqlUpdateRegistrationFails(p) ==
  /\ pc[p] = "update"
  /\ sqlRet' = [sqlRet EXCEPT ![p] = Result("rejected", local[p].ticketId, FALSE, {})]
  /\ pc' = [pc EXCEPT ![p] = "idle"]
  /\ UNCHANGED <<db, dbScanHistory, local, sqlCalls, sqlValid>>

\* ------------------------------------------------------------ email
\* The process starts: both email modules read their settings from the
\* environment (a variable that is not set reads as ""), and no call is in
\* flight.
startProcess(key, user, pass) ==
  /\ BREVO_API_KEY' = key
  /\ EMAIL_USER' = user
  /\ EMAIL_PASS' = pass
  /\ brevoPc' = "idle"
  /\ brevoResponse' = "none"
  /\ brevoRet' = "none"
  /\ mailPc' = "idle"
  /\ mailRet' = "none"
  /\ UNCHANGED <<brevoRequests, mailRequests>>

isEmailConfigured == BREVO_API_KEY # ""

\* Brevo sendQRCodeEmail up to its first await: the key check, then the
\* request is built inside the try block.
sendQRCodeEmail ==
  /\ brevoPc = "idle"
  /\ brevoRequests < MaxMail
  /\ brevoResponse' = "none"
  /\ IF BREVO_API_KEY = ""
     THEN /\ brevoRet' = "false"
          /\ UNCHANGED brevoPc
     ELSE /\ brevoRet' = "pending"
          /\ brevoPc' = "fetch"
  /\ UNCHANGED <<BREVO_API_KEY, EMAIL_USER, EMAIL_PASS, brevoRequests,
                 mailPc, mailRet, mailRequests>>

\* await fetch(...): the request is made; it throws, or gives a response
\* that is ok or not.  A thrown error is caught and the call returns false.
fetchEmail(outcome) ==
  /\ brevoPc = "fetch"
  /\ brevoRequests' = brevoRequests + 1
  /\ brevoResponse' = outcome
  /\ IF outcome = "throws"
     THEN /\ brevoRet' = "false"
          /\ brevoPc' = "idle"
     ELSE /\ brevoPc' = "json"
          /\ UNCHANGED brevoRet
  /\ UNCHANGED <<BREVO_API_KEY, EMAIL_USER, EMAIL_PASS, mailPc, mailRet, mailRequests>>

\* A body read outside the try block: a body that does not parse rejects
\* the promise.
responseJsonUncaught(parsed) ==
  /\ brevoPc = "json"
  /\ brevoRet' = IF ~parsed THEN "rejected"
                 ELSE IF brevoResponse = "ok" THEN "true" ELSE "false"
  /\ brevoPc' = "idle"
  /\ UNCHANGED <<BREVO_API_KEY, EMAIL_USER, EMAIL_PASS, brevoResponse, brevoRequests,
                 mailPc, mailRet, mailRequests>>

\* await response.json(), on the error branch and on the success branch; a
\* body that does not parse throws inside the try block and is caught.
responseJson(parsed) ==
  /\ brevoPc = "json"
  /\ brevoRet' = IF parsed /\ brevoResponse = "ok" THEN "true" ELSE "false"
  /\ brevoPc' = "idle"
  /\ UNCHANGED <<BREVO_API_KEY, EMAIL_USER, EMAIL_PASS, brevoResponse, brevoRequests,
                 mailPc, mailRet, mailRequests>>

\* A check that is satisfied by one of the two credentials.
isEmailConfiguredNodemailerEither == EMAIL_USER # "" \/ EMAIL_PASS # ""

isEmailConfiguredNodemailer == EMAIL_USER # "" /\ EMAIL_PASS # ""

\* nodemailer sendQRCodeEmail up to its await: the credentials check.
sendQRCodeEmailNodemailer ==
  /\ mailPc = "idle"
  /\ mailRequests < MaxMail
  /\ IF EMAIL_USER = "" \/ EMAIL_PASS = ""
     THEN /\ mailRet' = "false"
          /\ UNCHANGED mailPc
     ELSE /\ mailRet' = "pending"
          /\ mailPc' = "sendMail"
  /\ UNCHANGED <<BREVO_API_KEY, EMAIL_USER, EMAIL_PASS, brevoPc, brevoResponse,
                 brevoRet, brevoRequests, mailRequests>>

\* await transporter.sendMail(...): it resolves, or throws and is caught.
sendMail(sent) ==
  /\ mailPc = "sendMail"
  /\ mailRequests' = mailRequests + 1
  /\ mailRet' = IF sent THEN "true" ELSE "false"
  /\ mailPc' = "idle"
  /\ UNCHANGED <<BREVO_API_KEY, EMAIL_USER, EMAIL_PASS, brevoPc, brevoResponse,
                 brevoRet, brevoRequests>>

\* ------------------------------------------------------- specifications
Init ==
  /\ registrations = << >>
  /\ scanHistory = << >>
  /\ ret = Result("new", FirstTicket, TRUE, {})
  /\ track = [t \in TicketIds |-> NoCalls]
  /\ eventForms = << >>
  /\ nextFormId = 1
  /\ formRet = FormResult("new", 1, TRUE, {})
  /\ db = << >>
  /\ dbScanHistory = << >>
  /\ pc = [p \in Procs |-> "idle"]
  /\ local = [p \in Procs |-> [ticketId |-> FirstTicket, registration |-> {}]]
  /\ sqlRet = [p \in Procs |-> Result("new", FirstTicket, TRUE, {})]
  /\ sqlCalls = 0
  /\ sqlValid = [t \in TicketIds |-> 0]
  /\ BREVO_API_KEY = ""
  /\ EMAIL_USER = ""
  /\ EMAIL_PASS = ""
  /\ brevoPc = "idle"
  /\ brevoResponse = "none"
  /\ brevoRet = "none"
  /\ brevoRequests = 0
  /\ mailPc = "idle"
  /\ mailRet = "none"
  /\ mailRequests = 0

\* MemStorage, the registrations.
Next ==
  \/ \E id \in TicketIds, data \in InsertRegistration({NoForm}) :
        createRegistration(id, data) /\ UNCHANGED <<formVars, sqlVars, mailVars>>
  \/ \E id \in TicketIds, qr \in QrCodes :
        generateQRCode(id, qr) /\ UNCHANGED <<formVars, sqlVars, mailVars>>
  \/ \E id \in TicketIds :
        verifyAndScan(id) /\ UNCHANGED <<formVars, sqlVars, mailVars>>
  \/ \E id \in TicketIds :
        deleteRegistration(id) /\ UNCHANGED <<formVars, sqlVars, mailVars>>
  \/ \E id \in TicketIds :
        revokeQRCode(id) /\ UNCHANGED <<formVars, sqlVars, mailVars>>
  \/ \E id \in TicketIds, data \in PartialRegistration({NoForm}) :
        updateRegistration(id, data) /\ UNCHANGED <<formVars, sqlVars, mailVars>>

Spec == Init /\ [][Next]_vars

\* MemStorage, the event forms.
NextForms ==
  \/ \E data \in EventFormInput :
        createEventForm(data) /\ UNCHANGED <<memVars, sqlVars, mailVars>>
  \/ \E id \in FormIds, data \in FormBuilderData :
        updateEventForm(id, data) /\ UNCHANGED <<memVars, sqlVars, mailVars>>
  \/ \E id \in FormIds :
        publishEventForm(id) /\ UNCHANGED <<memVars, sqlVars, mailVars>>
  \/ \E id \in FormIds :
        unpublishEventForm(id) /\ UNCHANGED <<memVars, sqlVars, mailVars>>
  \/ \E id \in FormIds :
        deleteEventForm(id) /\ UNCHANGED <<memVars, sqlVars, mailVars>>

SpecForms == Init /\ [][NextForms]_vars

\* MemStorage, registrations and event forms together.  One ticket id is
\* drawn, so the other id is never stored; one form is created, the one the
\* registrations name, so the other form id is never stored; an update of a
\* registration changes its formId.
NextStore ==
  \/ \E id \in StoreTickets, data \in InsertRegistration(StoreFormIds) :
        createRegistration(id, data) /\ UNCHANGED <<formVars, sqlVars, mailVars>>
  \/ \E id \in TicketIds, qr \in QrCodes :
        generateQRCode(id, qr) /\ UNCHANGED <<formVars, sqlVars, mailVars>>
  \/ \E id \in TicketIds :
        verifyAndScan(id) /\ UNCHANGED <<formVars, sqlVars, mailVars>>
  \/ \E id \in TicketIds :
        deleteRegistration(id) /\ UNCHANGED <<formVars, sqlVars, mailVars>>
  \/ \E id \in TicketIds :
        revokeQRCode(id) /\ UNCHANGED <<formVars, sqlVars, mailVars>>
  \/ \E id \in TicketIds,
        data \in {d \in PartialRegistration(StoreFormIds) : d.has \subseteq {"formId"}} :
        updateRegistration(id, data) /\ UNCHANGED <<formVars, sqlVars, mailVars>>
  \/ \E data \in EventFormInput :
        /\ nextFormId \in StoreFormIds
        /\ createEventForm(data) /\ UNCHANGED <<memVars, sqlVars, mailVars>>
  \/ \E id \in StoreForms, data \in FormBuilderData :
        updateEventForm(id, data) /\ UNCHANGED <<memVars, sqlVars, mailVars>>
  \/ \E id \in StoreForms :
        publishEventForm(id) /\ UNCHANGED <<memVars, sqlVars, mailVars>>
  \/ \E id \in StoreForms :
        unpublishEventForm(id) /\ UNCHANGED <<memVars, sqlVars, mailVars>>
  \/ \E id \in StoreForms :
        deleteEventForm(id) /\ UNCHANGED <<memVars, sqlVars, mailVars>>

SpecStore == Init /\ [][NextStore]_vars

\* SqliteStorage.verifyAndScan, requests interleaved at their awaits.
NextSql ==
  \/ \E id \in TicketIds, data \in InsertRegistration({NoForm}) :
        dbCreateRegistration(id, data) /\ UNCHANGED <<memVars, formVars, mailVars>>
  \/ \E p \in Procs, id \in TicketIds :
        sqlGetRegistration(p, id) /\ UNCHANGED <<memVars, formVars, mailVars>>
  \/ \E p \in Procs :
        sqlCreateScanHistory(p) /\ UNCHANGED <<memVars, formVars, mailVars>>
  \/ \E p \in Procs :
        sqlUpdateRegistration(p) /\ UNCHANGED <<memVars, formVars, mailVars>>

SpecSql == Init /\ [][NextSql]_vars

\* SqliteStorage with a database whose update can fail.
NextSqlFaults ==
  \/ NextSql
  \/ \E p \in Procs :
        sqlUpdateRegistrationFails(p) /\ UNCHANGED <<memVars, formVars, mailVars>>

SpecSqlFaults == Init /\ [][NextSqlFaults]_vars

\* The two email modules.
NextMail ==
  \/ \E key \in EnvValues, user \in EnvValues, pass \in EnvValues :
        startProcess(key, user, pass) /\ UNCHANGED <<memVars, formVars, sqlVars>>
  \/ sendQRCodeEmail /\ UNCHANGED <<memVars, formVars, sqlVars>>
  \/ \E outcome \in FetchOutcomes : fetchEmail(outcome) /\ UNCHANGED <<memVars, formVars, sqlVars>>
  \/ \E parsed \in BOOLEAN : responseJson(parsed) /\ UNCHANGED <<memVars, formVars, sqlVars>>
  \/ sendQRCodeEmailNodemailer /\ UNCHANGED <<memVars, formVars, sqlVars>>
  \/ \E sent \in BOOLEAN : sendMail(sent) /\ UNCHANGED <<memVars, formVars, sqlVars>>

SpecMail == Init /\ [][NextMail]_vars

\* ------------------------------------------------------------ properties
Min(a, b) == IF a <= b THEN a ELSE b

Stored(id) == MapHas(registrations, id)

\* The step is a verifyAndScan(t) call.
VerifyStep(t) == ret'.op = "verifyAndScan" /\ ret'.id = t

\* C1: every stored registration of MemStorage has 0 <= scans <= maxScans.
C1_ScansWithinMax ==
  \A id \in DOMAIN registrations :
    /\ 0 <= registrations[id].scans
    /\ registrations[id].scans <= registrations[id].maxScans

\* A group ticket scanned to its maximum after its groupSize was updated.
C1_Witness ==
  \E id \in DOMAIN registrations :
    /\ registrations[id].scans = registrations[id].maxScans
    /\ registrations[id].maxScans = MaxGroup
    /\ registrations[id].groupSize # registrations[id].maxScans

\* C2: of the verifyAndScan calls made on a registration since its QR code
\* was issued with scans = 0, exactly the first maxScans returned valid=true:
\* after n calls, min(n, maxScans) of them were valid.
C2_FirstMaxScansValid ==
  \A id \in DOMAIN registrations :
    registrations[id].hasQR =>
      track[id].runValid = Min(track[id].calls, registrations[id].maxScans)

\* A group ticket after maxScans valid calls and one rejected call.
C2_Witness ==
  \E id \in DOMAIN registrations :
    /\ registrations[id].hasQR
    /\ registrations[id].maxScans = MaxGroup
    /\ track[id].calls = MaxGroup + 1
    /\ track[id].runValid = MaxGroup
    /\ ret = Result("verifyAndScan", id, FALSE, {registrations[id]})

\* C3: verifyAndScan returns valid=true exactly when the ticket is stored, has
\* a QR code, is not exhausted and has scans < maxScans; an unknown id returns
\* no registration; a call that returns valid=false leaves scans, hasQR and
\* the scan history as they were.
C3_VerifyBranches ==
  [][\A t \in TicketIds :
       VerifyStep(t) =>
         /\ ret'.ok <=> /\ Stored(t)
                        /\ registrations[t].hasQR
                        /\ registrations[t].status # "exhausted"
                        /\ registrations[t].scans < registrations[t].maxScans
         /\ ~Stored(t) => ret'.reg = {}
         /\ (Stored(t) /\ ~registrations[t].hasQR) => ~ret'.ok
         /\ ~ret'.ok =>
              /\ scanHistory' = scanHistory
              /\ DOMAIN registrations' = DOMAIN registrations
              /\ Stored(t) =>
                   /\ registrations'[t].scans = registrations[t].scans
                   /\ registrations'[t].hasQR = registrations[t].hasQR]_vars

\* A ticket that was scanned, then revoked, is rejected for having no QR code.
C3_Witness ==
  \E id \in DOMAIN registrations :
    /\ ~registrations[id].hasQR
    /\ \E i \in 1..Len(scanHistory) : scanHistory[i] = id
    /\ ret = Result("verifyAndScan", id, FALSE, {registrations[id]})

\* C4: a verifyAndScan that returns valid=true adds exactly 1 to scans, sets
\* the status to exhausted when the new scans >= maxScans and to checked-in
\* otherwise, returns the updated registration and changes no other one.
C4_ScanIncrements ==
  [][\A t \in TicketIds :
       (VerifyStep(t) /\ ret'.ok) =>
         /\ Stored(t)
         /\ DOMAIN registrations' = DOMAIN registrations
         /\ registrations'[t].scans = registrations[t].scans + 1
         /\ registrations'[t].status =
              IF registrations'[t].scans >= registrations'[t].maxScans
              THEN "exhausted" ELSE "checked-in"
         /\ registrations'[t] =
              [registrations[t] EXCEPT !.scans = registrations'[t].scans,
                                       !.status = registrations'[t].status]
         /\ ret'.reg = {registrations'[t]}
         /\ \A o \in DOMAIN registrations \ {t} :
              registrations'[o] = registrations[o]]_vars

\* The second, exhausting scan of a group ticket while another is stored.
C4_Witness ==
  \E id \in DOMAIN registrations :
    /\ ret = Result("verifyAndScan", id, TRUE, {registrations[id]})
    /\ registrations[id].scans = MaxGroup
    /\ registrations[id].status = "exhausted"
    /\ DOMAIN registrations = TicketIds

\* C5: SqliteStorage.verifyAndScan has no concurrency guard.  A request that
\* passed the scan-limit check on the registration it read returns valid=true
\* and stores the scans it read plus one, whatever other requests stored in
\* between; so two interleaved requests can both be valid for one last scan.
C5_NoConcurrencyGuard ==
  [][\A p \in Procs :
       (pc[p] = "update" /\ pc'[p] = "idle") =>
         \A registration \in local[p].registration :
           /\ sqlRet'[p].ok
           /\ sqlRet'[p].id = local[p].ticketId
           /\ MapHas(db', local[p].ticketId) =>
                db'[local[p].ticketId].scans = registration.scans + 1]_vars

\* Both requests read scans = maxScans - 1 and both returned valid=true: the
\* stored scans is maxScans and the valid results outnumber maxScans.
C5_Witness ==
  \E t \in DOMAIN db :
    /\ \A p \in Procs :
         /\ pc[p] = "idle"
         /\ sqlRet[p].op = "verifyAndScan" /\ sqlRet[p].id = t /\ sqlRet[p].ok
         /\ local[p].ticketId = t
         /\ \A registration \in local[p].registration :
              registration.scans = db[t].maxScans - 1
    /\ db[t].scans = db[t].maxScans
    /\ sqlValid[t] > db[t].maxScans

\* C6: verifyAndScan returns valid=true only for a registration whose QR code
\* was issued by generateQRCode and not revoked since, and a pending
\* registration never becomes checked-in or exhausted in one step.
C6_QRBeforeScan ==
  [][\A t \in TicketIds :
       /\ (VerifyStep(t) /\ ret'.ok) =>
            /\ Stored(t)
            /\ track[t].qr = "issued"
            /\ registrations[t].status # "pending"
       /\ (Stored(t) /\ registrations[t].status = "pending"
             /\ MapHas(registrations', t)) =>
            registrations'[t].status \in {"pending", "active"}]_vars

\* A single-scan ticket scanned, revoked, issued again and scanned again.
C6_Witness ==
  \E id \in DOMAIN registrations :
    /\ registrations[id].maxScans = 1
    /\ scanHistory = <<id, id>>
    /\ track[id].qr = "issued"
    /\ ret = Result("verifyAndScan", id, TRUE, {registrations[id]})

C8_RevokeResets ==
  [][\A t \in TicketIds :
       /\ (ret'.op = "revokeQRCode" /\ ret'.id = t) =>
            /\ ret'.ok <=> Stored(t)
            /\ Stored(t) =>
                 registrations' =
                   MapSet(registrations, t,
                          [registrations[t] EXCEPT !.hasQR = FALSE,
                                                   !.qrCodeData = QrNull,
                                                   !.status = "pending",
                                                   !.scans = 0])
       /\ (VerifyStep(t) /\ track[t].qr = "revoked") => ~ret'.ok]_vars

\* A scanned group ticket, revoked, is rejected by the next verifyAndScan.
C8_Witness ==
  \E id \in DOMAIN registrations :
    /\ track[id].qr = "revoked"
    /\ registrations[id].maxScans = MaxGroup
    /\ registrations[id].scans = 0
    /\ \E i \in 1..Len(scanHistory) : scanHistory[i] = id
    /\ ret = Result("verifyAndScan", id, FALSE, {registrations[id]})

\* C9: deleteRegistration(id) returns true exactly when id was stored; after
\* it getRegistration(id) is undefined, the count is one lower, every other
\* registration is unchanged and verifyAndScan(id) finds nothing; an id that
\* is not stored becomes stored only by createRegistration, as a new
\* registration with no scans and no QR code.
C9_DeleteIsPermanent ==
  [][\A t \in TicketIds :
       /\ (ret'.op = "deleteRegistration" /\ ret'.id = t) =>
            /\ ret'.ok <=> Stored(t)
            /\ getRegistration(t)' = {}
            /\ getRegistrationsCount' =
                 getRegistrationsCount - (IF Stored(t) THEN 1 ELSE 0)
            /\ \A o \in DOMAIN registrations \ {t} :
                 /\ MapHas(registrations', o)
                 /\ registrations'[o] = registrations[o]
       /\ (VerifyStep(t) /\ ~Stored(t)) => (~ret'.ok /\ ret'.reg = {})
       /\ (~Stored(t) /\ MapHas(registrations', t)) =>
            /\ ret'.op = "createRegistration"
            /\ registrations'[t].scans = 0
            /\ ~registrations'[t].hasQR
            /\ registrations'[t].qrCodeData = QrNull
            /\ registrations'[t].status = "pending"]_vars

\* A scanned ticket was deleted while another registration stays stored.
C9_Witness ==
  \E t \in TicketIds :
    /\ ~Stored(t)
    /\ ret = Result("deleteRegistration", t, TRUE, {})
    /\ \E i \in 1..Len(scanHistory) : scanHistory[i] = t
    /\ \E o \in DOMAIN registrations : registrations[o].scans > 0

\* C10: at most one stored event form has isPublished = true.
C10_AtMostOnePublished ==
  Cardinality({id \in DOMAIN eventForms : eventForms[id].isPublished}) <= 1

\* Several forms are stored and the last one published is not the first.
C10_Witness ==
  /\ formRet.op = "publishEventForm" /\ formRet.ok
  /\ formRet.id > 1
  /\ DOMAIN eventForms = FormIds
  /\ eventForms[formRet.id].isPublished
\* The id of the form getPublishedForm returns: {} or {id}.
PublishedFormId == {form.id : form \in getPublishedForm}

C12_FailedCallsChangeNothing ==
  [][/\ \A id \in TicketIds :
          ~Stored(id) =>
            /\ getRegistration(id) = {}
            /\ (/\ ret' # ret
                /\ ret'.id = id
                /\ ret'.op \in {"generateQRCode", "revokeQRCode",
                                "updateRegistration", "deleteRegistration"}) =>
                 /\ ~ret'.ok
                 /\ UNCHANGED <<registrations, scanHistory, eventForms, nextFormId>>
     /\ \A id \in StoreForms :
          ~MapHas(eventForms, id) =>
            /\ getEventForm(id) = {}
            /\ (/\ formRet' # formRet
                /\ formRet'.id = id
                /\ formRet'.op \in {"updateEventForm", "publishEventForm",
                                    "unpublishEventForm", "deleteEventForm"}) =>
                 /\ ~formRet'.ok
                 /\ UNCHANGED <<registrations, scanHistory, eventForms, nextFormId>>
    ]_vars

\* publishEventForm and revokeQRCode failed on ids that are not stored while
\* a form is published and a scanned registration is stored.
C12_Witness ==
  /\ formRet.op = "publishEventForm" /\ ~formRet.ok
  /\ ~MapHas(eventForms, formRet.id)
  /\ PublishedFormId # {}
  /\ ret.op = "revokeQRCode" /\ ~ret.ok
  /\ ~Stored(ret.id)
  /\ scanHistory # << >>
  /\ \E id \in DOMAIN registrations : registrations[id].scans > 0
\* C13: no referential integrity between registrations and forms:
\* createRegistration stores the given formId whether or not such a form is
\* stored, and deleteEventForm(id) removes only the form: every registration
\* is unchanged and getRegistrationsByFormIdCount(id) is the same before and
\* after the deletion.
C13_NoReferentialIntegrity ==
  [][/\ (ret' # ret /\ ret'.op = "createRegistration") =>
          /\ ret'.ok
          /\ \E data \in InsertRegistration(StoreFormIds) :
                registrations'[ret'.id] = NewRegistration(ret'.id, data)
          /\ \A reg \in ret'.reg : registrations'[ret'.id] = reg
          /\ UNCHANGED <<eventForms, nextFormId>>
     /\ (formRet' # formRet /\ formRet'.op = "deleteEventForm") =>
          /\ ~MapHas(eventForms', formRet'.id)
          /\ \A f \in DOMAIN eventForms :
                f # formRet'.id => MapHas(eventForms', f) /\ eventForms'[f] = eventForms[f]
          /\ UNCHANGED <<registrations, scanHistory>>
          /\ \A f \in StoreForms :
                getRegistrationsByFormIdCount(f)' = getRegistrationsByFormIdCount(f)
    ]_vars

\* Form 1 was deleted while a registration naming it is stored, and the last
\* registration was created with formId 1 when no form 1 was stored.
C13_Witness ==
  /\ formRet.op = "deleteEventForm" /\ formRet.ok /\ formRet.id = 1
  /\ ret.op = "createRegistration"
  /\ ~MapHas(eventForms, 1)
  /\ getRegistrationsByFormIdCount(1) = 1
\* C14: SqliteStorage.verifyAndScan follows the four branches of
\* MemStorage.verifyAndScan: a request that read a registration returns the
\* valid flag MemStorage computes for that registration, and a registration
\* with hasQR=false is rejected and its scans is not incremented.  The code
\* has no hasQR branch, so this is violated.
C14_SqliteFollowsMemStorage ==
  [][\A p \in Procs :
       /\ (pc[p] = "update" /\ pc'[p] = "idle") =>
            \A registration \in local[p].registration :
              /\ sqlRet'[p].ok = (VerifyBranch(registration) = "scan")
              /\ ~registration.hasQR =>
                   /\ ~sqlRet'[p].ok
                   /\ db' = db
       /\ (pc[p] = "idle" /\ pc'[p] = "history") =>
            \A registration \in local'[p].registration :
              VerifyBranch(registration) = "scan"
    ]_vars
\* C15: in SqliteStorage.verifyAndScan every call that returns valid=true
\* writes status 'checked-in', also the call that brings scans to maxScans,
\* and once a registration is checked-in no verifyAndScan call, valid or
\* not, changes its status.
C15_CheckedInPermanently ==
  [][/\ \A p \in Procs :
          (pc[p] = "update" /\ pc'[p] = "idle") =>
            /\ sqlRet'[p].ok
            /\ \A registration \in sqlRet'[p].reg : registration.status = "checked-in"
            /\ MapHas(db', local[p].ticketId) =>
                 db'[local[p].ticketId].status = "checked-in"
     /\ \A t \in DOMAIN db :
          db[t].status = "checked-in" =>
            MapHas(db', t) /\ db'[t].status = "checked-in"
     /\ \A p \in Procs :
          (sqlRet'[p] # sqlRet[p] /\ ~sqlRet'[p].ok) => db' = db
    ]_vars

\* The registration reached scans = maxScans by a valid call, is checked-in,
\* and a later call on it was rejected.
C15_Witness ==
  \E t \in DOMAIN db, p, q \in Procs :
    /\ p # q
    /\ db[t].maxScans > 1
    /\ db[t].scans = db[t].maxScans
    /\ db[t].status = "checked-in"
    /\ sqlRet[p].op = "verifyAndScan" /\ sqlRet[p].id = t /\ sqlRet[p].ok
    /\ \E registration \in sqlRet[p].reg : registration.scans = db[t].maxScans
    /\ sqlRet[q].op = "verifyAndScan" /\ sqlRet[q].id = t /\ ~sqlRet[q].ok
    /\ \E registration \in local[q].registration :
         registration.scans = db[t].maxScans
\* C16: createRegistration stores the new registration under a generated id
\* in 1000..9999 that is not the key of a stored registration: each call
\* makes getRegistrationsCount grow by exactly one and replaces no stored
\* registration.  The code draws the id at random and does not look it up,
\* so this is violated.
C16_FreshTicketId ==
  [][ret'.op = "createRegistration" =>
       /\ ret'.id \in FirstTicket..9999
       /\ ~Stored(ret'.id)
       /\ getRegistrationsCount' = getRegistrationsCount + 1
       /\ \A id \in DOMAIN registrations :
            MapHas(registrations', id) /\ registrations'[id] = registrations[id]
    ]_vars
\* C17: when the email provider is not configured (BREVO_API_KEY empty;
\* EMAIL_USER or EMAIL_PASS empty for nodemailer) sendQRCodeEmail resolves to
\* false at once and no provider request is made, a configured call goes on
\* to the provider, and isEmailConfigured() is false in exactly the
\* configurations in which the send is skipped.
C17_UnconfiguredSendSkipped ==
  [][/\ (brevoPc = "idle" /\ brevoRet' # brevoRet /\ brevoRet' \in {"false", "pending"}) =>
          IF isEmailConfigured
          THEN brevoPc' = "fetch" /\ brevoRet' = "pending"
          ELSE /\ brevoRet' = "false"
               /\ brevoPc' = "idle"
               /\ brevoRequests' = brevoRequests
     /\ (mailPc = "idle" /\ mailRet' # mailRet /\ mailRet' \in {"false", "pending"}) =>
          IF isEmailConfiguredNodemailer
          THEN mailPc' = "sendMail" /\ mailRet' = "pending"
          ELSE /\ mailRet' = "false"
               /\ mailPc' = "idle"
               /\ mailRequests' = mailRequests
     /\ (BREVO_API_KEY = "" /\ BREVO_API_KEY' = "") =>
          /\ brevoRequests' = brevoRequests
          /\ brevoRet' # "true"
     /\ ((EMAIL_USER = "" \/ EMAIL_PASS = "") /\ UNCHANGED <<EMAIL_USER, EMAIL_PASS>>) =>
          /\ mailRequests' = mailRequests
          /\ mailRet' # "true"
     /\ ~isEmailConfigured <=> BREVO_API_KEY = ""
     /\ ~isEmailConfiguredNodemailer <=> (EMAIL_USER = "" \/ EMAIL_PASS = "")
    ]_vars

\* Both sends were skipped: no API key, and an account without a password,
\* and neither provider has received a request.
C17_Witness ==
  /\ BREVO_API_KEY = "" /\ brevoRet = "false" /\ brevoRequests = 0
  /\ EMAIL_USER # "" /\ EMAIL_PASS = ""
  /\ mailRet = "false" /\ mailRequests = 0

\* C18: the Brevo sendQRCodeEmail never rejects: after a network exception,
\* a response that is not ok, or a body that does not parse, the promise
\* resolves to false, and it resolves to true only if the provider answered
\* with an ok response.
C18_SendAlwaysResolves ==
  /\ brevoRet # "rejected"
  /\ brevoPc = "idle" <=> brevoRet \in {"none", "true", "false"}
  /\ brevoPc # "idle" <=> brevoRet = "pending"
  /\ brevoRet = "true" => brevoResponse = "ok"
  /\ (brevoPc = "idle" /\ brevoResponse \in {"throws", "not-ok"}) => brevoRet = "false"

\* The provider answered ok, the body did not parse, and the call resolved
\* to false.
C18_Witness ==
  /\ brevoPc = "idle"
  /\ brevoResponse = "ok"
  /\ brevoRet = "false"
  /\ brevoRequests > 0
\* C19: the scan maximum of a registration is its group size: maxScans =
\* groupSize >= 1 holds for every stored registration after any sequence of
\* createRegistration, generateQRCode, verifyAndScan, revokeQRCode and
\* updateRegistration.  updateRegistration assigns groupSize and leaves
\* maxScans, so this is violated.
C19_MaxScansIsGroupSize ==
  \A id \in DOMAIN registrations :
    /\ registrations[id].maxScans = registrations[id].groupSize
    /\ registrations[id].maxScans >= 1
HistoryCount(t) ==
  Cardinality({i \in 1..Len(dbScanHistory) : dbScanHistory[i] = t})

\* C21: SqliteStorage.verifyAndScan writes the scan-history record before it
\* updates the registration and never takes a record back: the record is
\* appended while the stored scans is still the old one, a failed
\* updateRegistration leaves the record and the registration as they are,
\* and so the records of a ticket are never fewer than its stored scans and
\* can be more.
C21_NoRollback ==
  [][/\ \A p \in Procs :
          (pc[p] = "history" /\ pc'[p] = "update") =>
            /\ dbScanHistory' = Append(dbScanHistory, local[p].ticketId)
            /\ db' = db
     /\ \A p \in Procs :
          (pc[p] = "update" /\ pc'[p] = "idle" /\ sqlRet'[p].op = "rejected") =>
            /\ db' = db
            /\ dbScanHistory' = dbScanHistory
     /\ Len(dbScanHistory') >= Len(dbScanHistory)
     /\ SubSeq(dbScanHistory', 1, Len(dbScanHistory)) = dbScanHistory
     /\ \A t \in DOMAIN db' : HistoryCount(t)' >= db'[t].scans
    ]_vars

\* The one request on the ticket failed in updateRegistration: no request is
\* in flight, one scan-history record exists and the stored scans is 0.
C21_Witness ==
  \E t \in DOMAIN db, p \in Procs :
    /\ \A q \in Procs : pc[q] = "idle"
    /\ sqlRet[p].op = "rejected" /\ sqlRet[p].id = t
    /\ HistoryCount(t) = 1
    /\ db[t].scans = 0
    /\ db[t].status = "pending"
\* C22: re-issuing a QR code grants no extra scans in MemStorage:
\* generateQRCode leaves scans as it is and makes the status active; a
\* verifyAndScan on a registration with a QR code and scans >= maxScans
\* returns valid=false, leaves scans and the scan history unchanged and
\* leaves the status exhausted; and the scans of a registration goes down
\* only in revokeQRCode (a createRegistration stores a new registration).
C22_ReissueGrantsNoScans ==
  [][\A id \in DOMAIN registrations :
       LET reg == registrations[id]
       IN /\ (ret'.op = "generateQRCode" /\ ret'.id = id) =>
               /\ ret'.ok
               /\ registrations'[id].scans = reg.scans
               /\ registrations'[id].maxScans = reg.maxScans
               /\ registrations'[id].hasQR
               /\ registrations'[id].status = "active"
          /\ (VerifyStep(id) /\ reg.hasQR /\ reg.scans >= reg.maxScans) =>
               /\ ~ret'.ok
               /\ registrations'[id].scans = reg.scans
               /\ registrations'[id].status = "exhausted"
               /\ scanHistory' = scanHistory
          /\ (MapHas(registrations', id) /\ registrations'[id].scans < reg.scans) =>
               /\ ret'.id = id
               /\ \/ ret'.op = "revokeQRCode" /\ ret'.ok
                  \/ /\ ret'.op = "createRegistration"
                     /\ ret'.reg = {registrations'[id]}
                     /\ ~registrations'[id].hasQR
    ]_vars

\* generateQRCode has just been called on a registration that had used all
\* its scans: it is active with scans = maxScans.
C22_Witness ==
  /\ ret.op = "generateQRCode" /\ ret.ok
  /\ MapHas(registrations, ret.id)
  /\ registrations[ret.id].status = "active"
  /\ registrations[ret.id].scans = registrations[ret.id].maxScans
  /\ registrations[ret.id].maxScans > 1
  /\ track[ret.id].runValid = registrations[ret.id].maxScans
C24_FormStatsAgree ==
  \A F \in StoreForms :
    (\A id \in DOMAIN registrations : registrations[id].formId = F) =>
      getFormStats(F) = getStats
====
